---- MODULE Spec2Model ----
(***************************************************************************)
(* Dataset ingestion and validation pipeline of riceprotek_web_app.        *)
(*                                                                         *)
(* The repository holds two implementations of the store module:           *)
(*   utils/database_sqlite_backup.py  the dict-argument API that app.py,   *)
(*        utils/pest_management.py and utils/nasa_power_api.py call        *)
(*        (create_record/read_records/update_record, f(data) signatures);  *)
(*   utils/database.py                the MongoDB module, with positional  *)
(*        signatures of its own.                                           *)
(* `backend` says which of the two serves a run.  The Dataset Upload page  *)
(* and bulk_import_pest_data are run against the sqlite module, the only   *)
(* one that defines every name they import; the functions of the MongoDB   *)
(* module are operations called with their own signatures.                 *)
(***************************************************************************)
EXTENDS Integers, Sequences, FiniteSets, TLC

\* ------------------------------------------------------------------ bounds
\* rows of an uploaded table
MaxRows == 1
\* importer / upload calls a user starts over a run
MaxCalls == 1
\* area-point and single-record operations over a run
MaxAdminOps == 1
\* upload-ledger operations over a run
MaxLedgerOps == 3
\* single-record calls (pest records, log_activity) over a run
MaxAuditOps == 2
\* calls of get_db and close_connection in one process
MaxConnCalls == 5

\* ------------------------------------------------------------ input values
Users == {"u1", "u2"}
AreaPointIds == {"AP1", "AP2"}
\* a missing date cell (row.get('date') is None)
NoDate == <<>>

\* Rows of an uploaded table: the cells of the temporal key and of the two
\* pest-count columns (a cell is read only when its column is present).
\* `text` names the columns (lower-cased) whose cell is not a number in this row.
Row(y, m, d, rbb, wsb) ==
    [Year |-> y, Month |-> m, Day |-> d, RBB |-> rbb, WSB |-> wsb, text |-> {}]
RowSet ==
    { Row(2024, 1, 1, 1, 1),     \* an rbb and a wsb record
      Row(2024, 1, 2, 0, 0),     \* zero counts
      Row(2024, 1, 1, -1, 0),    \* negative pest count
      Row(2024, 4, 31, 0, 1) }   \* day 31 of a 30-day month

RECURSIVE SeqsUpTo(_, _)
SeqsUpTo(S, n) ==
    IF n = 0 THEN {<<>>}
    ELSE LET shorter == SeqsUpTo(S, n - 1)
         IN  shorter \cup {Append(s, x) : s \in {t \in shorter : Len(t) = n - 1}, x \in S}

\* Column lists of the uploaded files (pandas keeps the columns in order).
LowerColumns == <<"year", "month", "day", "week_number", "rbb", "wsb", "t2m", "rh2m">>
NoWsbColumns == <<"Year", "Month", "Day", "Week_Number", "RBB", "T2M">>
ColumnLists == {LowerColumns, NoWsbColumns}

Tables == [columns : ColumnLists, rows : SeqsUpTo(RowSet, MaxRows)]

\* Tables handed to the data_processing functions directly: canonical, lower
\* case and mixed spellings, names that differ only by case, a name with a
\* leading blank, a missing required column, no column at all, a moon-phase
\* column in canonical and in lower-case spelling, and a column no domain knows.
CanonicalColumns ==
    <<"Year", "Month", "Day", "Week_Number", "RBB", "WSB",
      "T2M", "T2M_MIN", "T2M_MAX", "RH2M", "PRECTOTCORR">>
CaseVariantColumns == <<"YEAR", "year", "month", "day", "week_number", "rbb", "wsb">>
TwoYearColumns == <<"Year", "year", "Month", "Day", "Week_Number", "RBB", "WSB">>
BlankYearColumns == <<" year", "Month", "Day", "Week_Number", "RBB", "WSB">>
MoonColumns == <<"Year", "Month", "Day", "Week_Number", "RBB", "WSB", "Moon_Category", "notes">>
LowerMoonColumns == <<"year", "month", "day", "week_number", "rbb", "wsb", "moon_category">>
PureColumnLists ==
    {CanonicalColumns, LowerColumns, CaseVariantColumns, TwoYearColumns, BlankYearColumns,
     NoWsbColumns, MoonColumns, LowerMoonColumns, <<>>}
\* a row whose Year cell is text, a row whose RBB cell is text, and a row
\* outside every range
TextYearRow == [Row(2024, 1, 1, 0, 0) EXCEPT !.text = {"year"}]
TextRbbRow == [Row(2024, 1, 1, 0, 0) EXCEPT !.text = {"rbb"}]
OutOfRangeRow == Row(1999, 13, 32, 0, -1)
PureRowSet == RowSet \cup {TextYearRow, TextRbbRow, OutOfRangeRow}
PureTables ==
    {t \in [columns : PureColumnLists, rows : SeqsUpTo(PureRowSet, MaxRows)] :
        t.columns = <<>> => t.rows = <<>>}
\* the files whose rows become the record list of a direct importer call
RecordTables == {t \in Tables : t.columns = LowerColumns}

\* ------------------------------------------------------- sequence helpers
Range(s) == {s[i] : i \in 1..Len(s)}
Has(s, x) == x \in Range(s)
Filter(s, S) == SelectSeq(s, LAMBDA x : x \in S)

\* str.lower() on the column names that occur
Lower(c) ==
    CASE c \in {"Year", "year", "YEAR"} -> "year"
      [] c \in {"Month", "month"} -> "month"
      [] c \in {"Day", "day"} -> "day"
      [] c \in {"Week_Number", "week_number"} -> "week_number"
      [] c \in {"RBB", "rbb"} -> "rbb"
      [] c \in {"WSB", "wsb"} -> "wsb"
      [] c \in {"T2M", "t2m"} -> "t2m"
      [] c \in {"RH2M", "rh2m"} -> "rh2m"
      [] c \in {"T2M_MIN"} -> "t2m_min"
      [] c \in {"T2M_MAX"} -> "t2m_max"
      [] c \in {"PRECTOTCORR"} -> "prectotcorr"
      [] c \in {"WS2M"} -> "ws2m"
      [] c \in {"WS2M_MAX"} -> "ws2m_max"
      [] c \in {"WS2M_MIN"} -> "ws2m_min"
      [] c \in {"WD2M"} -> "wd2m"
      [] c \in {"GWETTOP"} -> "gwettop"
      [] c \in {"ALLSKY_SFC_UVA"} -> "allsky_sfc_uva"
      [] c \in {"ALLSKY_SFC_UVB"} -> "allsky_sfc_uvb"
      [] c \in {"CLRSKY_SFC_PAR_TOT"} -> "clrsky_sfc_par_tot"
      [] c \in {"Moon_Category"} -> "moon_category"
      [] OTHER -> c

\* The cell of column c in a row: the table stores one value per lower-cased
\* column name.
Cell(row, c) ==
    LET key == Lower(c)
    IN  CASE key = "year" -> row.Year
          [] key = "month" -> row.Month
          [] key = "day" -> row.Day
          [] key = "rbb" -> row.RBB
          [] key = "wsb" -> row.WSB
          [] OTHER -> 0

\* a synonym table whose canonical tokens are keys of other entries
crossed_mapping == [year |-> "Month", month |-> "Year"]

\* ------------------------------------------- utils/data_processing.py
column_mapping ==
    [year |-> "Year", month |-> "Month", day |-> "Day", week_number |-> "Week_Number",
     rbb |-> "RBB", wsb |-> "WSB", t2m |-> "T2M", t2m_min |-> "T2M_MIN",
     t2m_max |-> "T2M_MAX", rh2m |-> "RH2M", prectotcorr |-> "PRECTOTCORR",
     ws2m |-> "WS2M", ws2m_max |-> "WS2M_MAX", ws2m_min |-> "WS2M_MIN", wd2m |-> "WD2M",
     gwettop |-> "GWETTOP", allsky_sfc_uva |-> "ALLSKY_SFC_UVA",
     allsky_sfc_uvb |-> "ALLSKY_SFC_UVB", clrsky_sfc_par_tot |-> "CLRSKY_SFC_PAR_TOT"]

\* normalize_column_names: current_cols_lower maps a lower-cased name to the
\* label of the LAST column that has it; rename() renames the columns that
\* carry exactly that label.
normalize_column_names(df) ==
    LET cols == df.columns
        last(l) == CHOOSE i \in 1..Len(cols) :
                      /\ Lower(cols[i]) = l
                      /\ \A j \in (i + 1)..Len(cols) : Lower(cols[j]) # l
        renamed(i) ==
            IF Lower(cols[i]) \in DOMAIN column_mapping /\ cols[last(Lower(cols[i]))] = cols[i]
            THEN column_mapping[Lower(cols[i])]
            ELSE cols[i]
    IN  [df EXCEPT !.columns = [i \in 1..Len(cols) |-> renamed(i)]]

\* df[~df[col].between(lo, hi)]
NotBetween(df, col, lo, hi) ==
    {i \in 1..Len(df.rows) : ~(lo <= Cell(df.rows[i], col) /\ Cell(df.rows[i], col) <= hi)}
Negative(df, col) == {i \in 1..Len(df.rows) : Cell(df.rows[i], col) < 0}

\* a validator that does not ask for the WSB column
required_without_wsb == <<"Year", "Week_Number", "Month", "Day", "RBB">>

required_columns == <<"Year", "Week_Number", "Month", "Day", "RBB", "WSB">>
environmental_columns == <<"T2M", "T2M_MIN", "T2M_MAX", "RH2M", "PRECTOTCORR">>

\* One aggregate error line of the validator: its text and the row count it names.
ErrorLine(what, n) == [error |-> what, rows |-> n]

RangeCheck(df, upper, lower, lo, hi, what) ==
    IF Has(df.columns, upper) \/ Has(df.columns, lower)
    THEN LET col == IF Has(df.columns, upper) THEN upper ELSE lower
             bad == NotBetween(df, col, lo, hi)
         IN  IF Cardinality(bad) > 0 THEN <<ErrorLine(what, Cardinality(bad))>> ELSE <<>>
    ELSE <<>>

\* a validator without the pest count validation
NoPestCheck(df, pest_col) == <<>>

PestCheck(df, pest_col) ==
    IF Has(df.columns, pest_col) /\ Cardinality(Negative(df, pest_col)) > 0
    THEN <<ErrorLine("Negative " \o pest_col, Cardinality(Negative(df, pest_col)))>>
    ELSE <<>>

\* the column a range validation reads: `'Year' if 'Year' in df.columns else 'year'`
CheckedColumn(df, upper, lower) == IF Has(df.columns, upper) THEN upper ELSE lower
\* df[col] is a DataFrame, which has no between(), when two columns carry the label
DuplicateLabel(df, col) == Len(Filter(df.columns, {col})) > 1
\* a comparison of the column with a number is a TypeError on a text cell
TextCell(df, col) == \E i \in 1..Len(df.rows) : Lower(col) \in df.rows[i].text

\* validate_pest_dataset has no try/except: it raises when one of the range
\* validations it reaches raises
validate_raises(df) ==
    /\ Len(df.rows) > 0
    /\ \A c \in Range(required_columns) : Lower(c) \in {Lower(d) : d \in Range(df.columns)}
    /\ \/ \E pair \in {<<"Year", "year">>, <<"Month", "month">>, <<"Day", "day">>} :
            /\ Has(df.columns, pair[1]) \/ Has(df.columns, pair[2])
            /\ LET col == CheckedColumn(df, pair[1], pair[2])
               IN  DuplicateLabel(df, col) \/ TextCell(df, col)
       \/ \E pest_col \in {"RBB", "WSB"} : Has(df.columns, pest_col) /\ TextCell(df, pest_col)

validate_pest_dataset(df) ==
    LET df_cols_lower == {Lower(c) : c \in Range(df.columns)}
        missing == Filter(required_columns, {c \in Range(required_columns) : Lower(c) \notin df_cols_lower})
        missing_env == Filter(environmental_columns,
                              {c \in Range(environmental_columns) : Lower(c) \notin df_cols_lower})
        errors0 == IF missing # <<>> THEN <<ErrorLine("Missing required columns", Len(missing))>> ELSE <<>>
        warnings == IF missing_env # <<>>
                    THEN <<ErrorLine("Missing environmental columns", Len(missing_env))>> ELSE <<>>
        errors == IF Len(df.rows) > 0 /\ errors0 = <<>>
                  THEN RangeCheck(df, "Year", "year", 2000, 2100, "Invalid year")
                       \o RangeCheck(df, "Month", "month", 1, 12, "Invalid month")
                       \o RangeCheck(df, "Day", "day", 1, 31, "Invalid day")
                       \o PestCheck(df, "RBB") \o PestCheck(df, "WSB")
                  ELSE errors0
    IN  [valid |-> Len(errors) = 0, errors |-> errors, warnings |-> warnings,
         row_count |-> Len(df.rows), column_count |-> Len(df.columns)]

\* pd.to_datetime on year/month/day columns: a date of the calendar or an error
DaysInMonth(y, m) ==
    CASE m \in {4, 6, 9, 11} -> 30
      [] m = 2 -> IF (y % 4 = 0 /\ y % 100 # 0) \/ y % 400 = 0 THEN 29 ELSE 28
      [] OTHER -> 31
IsCalendarDate(row) ==
    /\ row.Month \in 1..12
    /\ row.Day \in 1..DaysInMonth(row.Year, row.Month)
DateOf(row) == <<row.Year, row.Month, row.Day>>

\* pd.to_datetime raises on a duplicated key column, on a text cell and on a
\* row that is no calendar date
ToDatetimeOk(proj) ==
    /\ \A c \in {"Year", "Month", "Day"} : ~DuplicateLabel(proj, c) /\ ~TextCell(proj, c)
    /\ \A i \in 1..Len(proj.rows) : IsCalendarDate(proj.rows[i])

\* a date derivation that accepts whatever year, month and day it is given
AnyDateDerives(proj) ==
    /\ Len(proj.rows) > 0
    /\ {"Year", "Month", "Day"} \subseteq Range(proj.columns)

\* the try/except around pd.to_datetime: the date column is added for every
\* row of the projection or, when the conversion raises, for none
DateDerives(proj) ==
    /\ Len(proj.rows) > 0
    /\ {"Year", "Month", "Day"} \subseteq Range(proj.columns)
    /\ ToDatetimeOk(proj)

env_columns ==
    <<"Year", "Month", "Day", "Week_Number", "CLRSKY_SFC_PAR_TOT", "ALLSKY_SFC_UVA",
      "ALLSKY_SFC_UVB", "T2M", "T2M_MIN", "T2M_MAX", "RH2M", "PRECTOTCORR",
      "WS2M", "WS2M_MAX", "WS2M_MIN", "WD2M", "GWETTOP">>
pest_columns == <<"Year", "Month", "Day", "Week_Number", "RBB", "WSB", "Moon_Category">>
metadata_columns == <<"Year", "Week_Number", "Month", "Day">>

\* df[cols]: the columns that carry the labels of cols, label by label
RECURSIVE SelectLabels(_, _)
SelectLabels(cols, all) ==
    IF cols = <<>> THEN <<>>
    ELSE Filter(all, {Head(cols)}) \o SelectLabels(Tail(cols), all)

\* df[cols].copy() if cols else pd.DataFrame()
Selection(df, cols) ==
    IF cols = <<>> THEN [columns |-> <<>>, rows |-> <<>>]
    ELSE [columns |-> SelectLabels(cols, df.columns), rows |-> df.rows]

\* a selection, then the date column
Projection(df, cols) ==
    LET base == Selection(df, cols)
    IN  IF DateDerives(base) THEN [base EXCEPT !.columns = Append(base.columns, "date")] ELSE base

chop_dataset_by_domain(df) ==
    LET env_cols_exist == Filter(env_columns, Range(df.columns))
        pest_cols_exist == Filter(pest_columns, Range(df.columns))
    IN  [environmental |-> Projection(df, env_cols_exist),
         pest |-> Projection(df, pest_cols_exist),
         metadata |-> IF Range(metadata_columns) \subseteq Range(df.columns)
                      THEN Projection(df, metadata_columns)
                      ELSE Projection(df, <<>>)]

\* prepare_for_database: binds the three fields to every row and retries the
\* date derivation; it looks up no area point.
prepare_for_database(proj, area_point_id, created_by) ==
    LET bound == [columns |-> proj.columns \o <<"area_point_id", "created_by", "created_at">>,
                  rows |-> proj.rows, area_point_id |-> area_point_id,
                  created_by |-> created_by, raised |-> FALSE]
    IN  IF ~Has(proj.columns, "date") /\ {"Year", "Month", "Day"} \subseteq Range(proj.columns)
           /\ ToDatetimeOk(proj)
        THEN [bound EXCEPT !.columns = Append(bound.columns, "date")]
        ELSE bound

\* row.get('date')
RowDate(prepared, i) ==
    IF Has(prepared.columns, "date") THEN DateOf(prepared.rows[i]) ELSE NoDate

\* the Python type of the date a record carries: iterrows() hands the page a
\* pandas Timestamp for a derived date and None for a missing one; a caller
\* of the store API passes text
DateType(kind, date) ==
    IF date = NoDate THEN "NoneType"
    ELSE IF kind = "upload" THEN "Timestamp" ELSE "str"

\* ------------------------------------------------------------------ state
VARIABLES
    backend,              \* which store module serves the run
    area_points,          \* area_point_id -> "absent" | "active" | "inactive"
    environmental_data,   \* committed rows of environmental_data
    pest_records,         \* rows of pest_records
    dataset_uploads,      \* rows of dataset_uploads (the UploadJobs)
    dataset_processing,   \* rows of dataset_processing (the ProcessingOutcomes)
    activity_logs,        \* rows of activity_logs
    wlock,                \* the sqlite connection holding the write lock, or ""
    sess,                 \* per user: the call in progress and its locals
    ncalls,               \* per user: calls started
    nadmin,               \* area-point and single-record operations done
    nledger,              \* ledger operations done
    calc,                 \* a call chain of the data_processing functions on one table
    audit,                \* single-record calls made, and the last one with its outcome
    conn                  \* database.py's module globals _client and _db, and the clients made

vars == <<backend, area_points, environmental_data, pest_records, dataset_uploads,
          dataset_processing, activity_logs, wlock, sess, ncalls, nadmin, nledger, calc,
          audit, conn>>

EmptyTable == [columns |-> <<>>, rows |-> <<>>]
NoResults == [environmental |-> <<>>, pest |-> <<>>]
IdleSession ==
    [pc |-> "idle", kind |-> "none", df |-> EmptyTable, area_point_id |-> "",
     import_environmental |-> FALSE, import_pest |-> FALSE, valid |-> FALSE,
     upload_id |-> 0, i |-> 0, tx |-> <<>>, success_count |-> 0, errors |-> <<>>,
     results |-> NoResults, raised |-> "", shown |-> <<>>,
     \* history of the call, read by the properties only
     env_invoked |-> "", pest_invoked |-> "", env_attempts |-> <<>>,
     row_inserted |-> 0, pest_attempts |-> <<>>]

\* no data_processing call chain in progress
NoCalc == [pc |-> "none"]

\* no single-record call made yet
Call(op, action, module, raised, wrote, logged) ==
    [op |-> op, action |-> action, module |-> module, raised |-> raised, wrote |-> wrote,
     logged |-> logged]
NoCall == Call("none", "", "", FALSE, FALSE, FALSE)
NoAudit == [n |-> 0, last |-> NoCall]

\* the module as imported: _client = None, _db = None, no client made
NoConn == [client |-> 0, db |-> 0, made |-> 0, pinged |-> {}, closed |-> {},
           calls |-> 0, returned |-> <<>>]

Init ==
    /\ backend \in {"sqlite", "mongo"}
    /\ area_points = [a \in AreaPointIds |-> IF a = "AP1" THEN "active" ELSE "absent"]
    /\ environmental_data = <<>>
    /\ pest_records = <<>>
    /\ dataset_uploads = <<>>
    /\ dataset_processing = <<>>
    /\ activity_logs = <<>>
    /\ wlock = ""
    /\ sess = [u \in Users |-> IdleSession]
    /\ ncalls = [u \in Users |-> 0]
    /\ nadmin = 0
    /\ nledger = 0
    /\ calc = NoCalc
    /\ audit = NoAudit
    /\ conn = NoConn

\* ---------------------------------------------------- the two store modules
\* sqlite: validate_area_point_exists raises unless the point exists and is active
sqlite_validate_area_point_exists(area_point_id) ==
    area_points[area_point_id] = "active"

\* MongoDB: validate_area_point_exists is get_area_point_by_id(...) is not None
mongo_validate_area_point_exists(area_point_id) ==
    area_points[area_point_id] # "absent"

SameTriple(a, b) ==
    /\ a.area_point_id = b.area_point_id
    /\ a.date = b.date
    /\ a.source = b.source

\* sqlite: UNIQUE(area_point_id, date, source) of environmental_data
sqlite_unique_violation(rows, rec) ==
    \E k \in 1..Len(rows) : SameTriple(rows[k], rec)

\* a collection without the unique index: no insert is a duplicate key
no_unique_index(coll, doc) == FALSE

\* MongoDB: the unique index on (area_point_id, date, source)
mongo_duplicate_key(coll, doc) ==
    \E k \in 1..Len(coll) : SameTriple(coll[k], doc)

\* sqlite3 binds None, int, float, str, bytes and the exact types date and
\* datetime; any other parameter type is a ProgrammingError of execute()
sqlite_bindable(value_type) ==
    value_type \in {"NoneType", "int", "float", "str", "bytes", "date", "datetime"}

\* sqlite: columns of the tables that carry updated_at (init_database)
TablesWithUpdatedAt == {"area_points", "environmental_data", "pest_records",
                        "monitoring_points", "insects"}

\* sqlite update_record: UPDATE <table> SET ..., updated_at=CURRENT_TIMESTAMP;
\* the statement is an OperationalError on a table without that column
sqlite_update_record_ok(table_name) == table_name \in TablesWithUpdatedAt

\* a sqlite write finds the database locked by another connection's open
\* transaction (sqlite3.OperationalError after the busy timeout)
Locked(p) == wlock \notin {"", p}

valid_actions == {"upload", "create", "read", "update", "delete", "login", "logout",
                  "export", "import"}
valid_modules == {"dataset", "environmental", "pest", "area_point", "auth",
                  "visualization", "settings"}

\* log_activity: the row appended (both modules validate the two vocabularies)
LogEntry(user, action, module) == [user |-> user, action |-> action, module |-> module]
\* a log that stores the entry without looking at the vocabularies
log_unvalidated(logs, user, action, module) == Append(logs, LogEntry(user, action, module))
log_activity(logs, user, action, module) ==
    IF action \in valid_actions /\ module \in valid_modules
    THEN Append(logs, LogEntry(user, action, module))
    ELSE logs

\* ------------------------------------------- what a call derives from its file
Domains(s) == chop_dataset_by_domain(normalize_column_names(s.df))
EnvPrepared(s, user) == prepare_for_database(Domains(s).environmental, s.area_point_id, user)
PestPrepared(s, user) == prepare_for_database(Domains(s).pest, s.area_point_id, user)

\* app.py: the environmental records built from the prepared projection
env_records(s, user) ==
    LET prepared == EnvPrepared(s, user)
    IN  [k \in 1..Len(prepared.rows) |->
            [area_point_id |-> s.area_point_id, date |-> RowDate(prepared, k),
             date_type |-> DateType(s.kind, RowDate(prepared, k)),
             source |-> "manual", created_by |-> user]]

Result(success, errors) == [success |-> success, failed |-> Len(errors), errors |-> errors]
RowError(row, error) == [row |-> row, error |-> error]

\* --------------------------------------------------- Dataset Upload page
\* a page that goes on to the split and the import whatever the validation says
ProceedsRegardless(validation_result) == TRUE

\* app.py: `if validation_result['valid']:` guards the split and the import
UploadProceeds(validation_result) == validation_result.valid

\* where the page goes after the environmental import
AfterEnv(s) ==
    IF s.kind = "upload"
    THEN IF s.import_pest /\ Len(Domains(s).pest.rows) > 0 THEN "pest_guard" ELSE "update"
    ELSE "done"

\* where the page goes after create_dataset_upload
AfterCreate(s) ==
    IF s.import_environmental /\ Len(Domains(s).environmental.rows) > 0
    THEN "env_row"
    ELSE AfterEnv(s)

\* One run of the page with an uploaded file and the import button pressed:
\* read, normalize, validate; when valid, split and create the upload record.
Upload(p, df, ap, ie, ip) ==
    /\ backend = "sqlite"
    /\ sess[p].pc = "idle"
    /\ ncalls[p] < MaxCalls
    /\ area_points[ap] = "active"          \* get_area_points() lists active points
    /\ ncalls' = [ncalls EXCEPT ![p] = ncalls[p] + 1]
    /\ LET validation_result == validate_pest_dataset(normalize_column_names(df))
           s0 == [IdleSession EXCEPT !.kind = "upload", !.df = df, !.area_point_id = ap,
                                     !.import_environmental = ie, !.import_pest = ip,
                                     !.valid = validation_result.valid]
       IN  IF ~UploadProceeds(validation_result)
           THEN /\ sess' = [sess EXCEPT ![p] = [s0 EXCEPT !.pc = "done",
                                                          !.shown = validation_result.errors]]
                /\ UNCHANGED dataset_uploads
           ELSE IF Locked(p)
           THEN /\ sess' = [sess EXCEPT ![p] = [s0 EXCEPT !.pc = "done", !.raised = "create",
                                                          !.shown = <<ErrorLine("database is locked", 0)>>]]
                /\ UNCHANGED dataset_uploads
           ELSE /\ dataset_uploads' = Append(dataset_uploads,
                        [uploader |-> p, processing_status |-> "processing",
                         validation_status |-> IF validation_result.valid THEN "valid" ELSE "invalid"])
                /\ sess' = [sess EXCEPT ![p] = [s0 EXCEPT !.pc = AfterCreate(s0), !.i = 1,
                                                          !.upload_id = Len(dataset_uploads) + 1]]
    /\ UNCHANGED <<calc, audit, conn, backend, area_points, environmental_data, pest_records,
                   dataset_processing, activity_logs, wlock, nadmin, nledger>>


\* ------------------- sqlite bulk_create_environmental_data(data_list, created_by)
\* the error of one loop iteration, "" when the INSERT is executed
sqlite_env_row_error(p, data) ==
    IF ~sqlite_validate_area_point_exists(data.area_point_id) THEN "area point does not exist or is not active"
    ELSE IF ~sqlite_bindable(data.date_type) THEN "Error binding parameter: type is not supported"
    ELSE IF Locked(p) THEN "database is locked"
    ELSE IF data.date = NoDate THEN "NOT NULL constraint failed: environmental_data.date"
    ELSE IF sqlite_unique_violation(environmental_data \o sess[p].tx, data) THEN "UNIQUE constraint failed"
    ELSE ""

\* one iteration of the loop: validate the area point, execute the INSERT in
\* the connection's open transaction, or record the error and go on
EnvRow(p) ==
    /\ sess[p].pc = "env_row"
    /\ LET s == sess[p]
           records == env_records(s, p)
           data == records[s.i]
           error == sqlite_env_row_error(p, data)
           invoked == IF s.i = 1 THEN area_points[s.area_point_id] ELSE s.env_invoked
           s1 == [s EXCEPT !.env_invoked = invoked,
                           !.i = IF s.i = Len(records) THEN 1 ELSE s.i + 1,
                           !.pc = IF s.i = Len(records) THEN "env_commit" ELSE "env_row"]
       IN  IF error = ""
           THEN /\ sess' = [sess EXCEPT ![p] = [s1 EXCEPT !.tx = Append(s.tx, data),
                                                          !.success_count = s.success_count + 1,
                                                          !.env_attempts = Append(s.env_attempts, "ok")]]
                /\ wlock' = p
           ELSE /\ sess' = [sess EXCEPT ![p] = [s1 EXCEPT !.errors = Append(s.errors, RowError(s.i, error)),
                                                          !.env_attempts = Append(s.env_attempts,
                                                              IF error = "UNIQUE constraint failed"
                                                              THEN "dup" ELSE "fail")]]
                /\ UNCHANGED wlock
    /\ UNCHANGED <<calc, audit, conn, backend, area_points, environmental_data, pest_records, dataset_uploads,
                   dataset_processing, activity_logs, ncalls, nadmin, nledger>>

\* a call of the importer with a record list of its own (dates as text)
SqliteBulkStart(p, df, ap) ==
    /\ backend = "sqlite"
    /\ sess[p].pc = "idle"
    /\ ncalls[p] < MaxCalls
    /\ ncalls' = [ncalls EXCEPT ![p] = ncalls[p] + 1]
    /\ LET s0 == [IdleSession EXCEPT !.kind = "sqlite_bulk", !.df = df, !.area_point_id = ap, !.i = 1]
       IN  sess' = [sess EXCEPT ![p] =
               IF Len(env_records(s0, p)) = 0
               THEN [s0 EXCEPT !.pc = "env_commit", !.env_invoked = area_points[ap]]
               ELSE [s0 EXCEPT !.pc = "env_row"]]
    /\ UNCHANGED <<calc, audit, conn, backend, area_points, environmental_data, pest_records, dataset_uploads,
                   dataset_processing, activity_logs, wlock, nadmin, nledger>>

\* conn.commit(); conn.close(); return {"success", "failed", "errors"}
EnvCommit(p) ==
    /\ sess[p].pc = "env_commit"
    /\ LET s == sess[p]
       IN  /\ environmental_data' = environmental_data \o s.tx
           /\ wlock' = IF wlock = p THEN "" ELSE wlock
           /\ sess' = [sess EXCEPT ![p] =
                  [s EXCEPT !.pc = AfterEnv(s), !.tx = <<>>, !.success_count = 0, !.errors = <<>>,
                            !.results = [s.results EXCEPT
                                !.environmental = <<Result(s.success_count, s.errors)>>]]]
    /\ UNCHANGED <<calc, audit, conn, backend, area_points, pest_records, dataset_uploads,
                   dataset_processing, activity_logs, ncalls, nadmin, nledger>>

\* ------------------- bulk_import_pest_data(df, area_point_id, created_by)
\* the page's except handler: the error is shown, nothing else is done
PageExcept(s, stage, error) ==
    [s EXCEPT !.pc = "done", !.raised = stage, !.shown = <<ErrorLine(error, 0)>>]

\* `if not area_point_id: raise`, then validate_area_point_exists, which
\* raises out of the importer (sqlite module)
PestGuard(p) ==
    /\ sess[p].pc = "pest_guard"
    /\ LET s == [sess[p] EXCEPT !.pest_invoked = area_points[sess[p].area_point_id]]
       IN  sess' = [sess EXCEPT ![p] =
               IF sqlite_validate_area_point_exists(s.area_point_id)
               THEN [s EXCEPT !.pc = IF Len(Domains(s).pest.rows) = 0 THEN "pest_log" ELSE "pest_rbb",
                              !.i = 1, !.success_count = 0, !.errors = <<>>]
               ELSE PageExcept(s, "pest", "area point does not exist or is not active")]
    /\ UNCHANGED <<calc, audit, conn, backend, area_points, environmental_data, pest_records, dataset_uploads,
                   dataset_processing, activity_logs, wlock, ncalls, nadmin, nledger>>

\* sqlite create_pest_record(data): the error raised, "" when the row is inserted
sqlite_create_pest_record_error(p, data) ==
    IF data.area_point_id = "" THEN "area_point_id is required"
    ELSE IF ~sqlite_validate_area_point_exists(data.area_point_id) THEN "area point does not exist or is not active"
    ELSE IF data.pest_type \notin {"rbb", "wsb"} THEN "pest_type must be either 'rbb' or 'wsb'"
    ELSE IF ~sqlite_bindable(data.date_type) THEN "Error binding parameter: type is not supported"
    ELSE IF Locked(p) THEN "database is locked"
    ELSE ""

PestRecord(s, user, pest_type, count) ==
    [area_point_id |-> s.area_point_id, pest_type |-> pest_type,
     date |-> RowDate(PestPrepared(s, user), s.i),
     date_type |-> DateType(s.kind, RowDate(PestPrepared(s, user), s.i)),
     count |-> count, created_by |-> user]

\* the row is done: next row, or the log entry after the loop
NextPestRow(s, failed) ==
    [s EXCEPT !.pc = IF s.i = Len(Domains(s).pest.rows) THEN "pest_log" ELSE "pest_rbb",
              !.i = IF s.i = Len(Domains(s).pest.rows) THEN s.i ELSE s.i + 1,
              !.row_inserted = 0,
              !.pest_attempts = Append(s.pest_attempts, [inserted |-> s.row_inserted, failed |-> failed])]

\* `if 'RBB' in row and row['RBB'] > 0:` create the rbb record
PestRbb(p) ==
    /\ sess[p].pc = "pest_rbb"
    /\ LET s == sess[p]
           prepared == PestPrepared(s, p)
           row == prepared.rows[s.i]
           data == PestRecord(s, p, "rbb", row.RBB)
           error == sqlite_create_pest_record_error(p, data)
       IN  IF Has(prepared.columns, "RBB") /\ row.RBB > 0
           THEN IF error = ""
                THEN /\ pest_records' = Append(pest_records, data)
                     /\ sess' = [sess EXCEPT ![p] = [s EXCEPT !.pc = "pest_wsb",
                                     !.success_count = s.success_count + 1,
                                     !.row_inserted = s.row_inserted + 1]]
                ELSE /\ UNCHANGED pest_records
                     /\ sess' = [sess EXCEPT ![p] =
                            NextPestRow([s EXCEPT !.errors = Append(s.errors, RowError(s.i, error))], TRUE)]
           ELSE /\ UNCHANGED pest_records
                /\ sess' = [sess EXCEPT ![p] = [s EXCEPT !.pc = "pest_wsb"]]
    /\ UNCHANGED <<calc, audit, conn, backend, area_points, environmental_data, dataset_uploads,
                   dataset_processing, activity_logs, wlock, ncalls, nadmin, nledger>>

\* `if 'WSB' in row and row['WSB'] > 0:` create the wsb record
PestWsb(p) ==
    /\ sess[p].pc = "pest_wsb"
    /\ LET s == sess[p]
           prepared == PestPrepared(s, p)
           row == prepared.rows[s.i]
           data == PestRecord(s, p, "wsb", row.WSB)
           error == sqlite_create_pest_record_error(p, data)
       IN  IF Has(prepared.columns, "WSB") /\ row.WSB > 0
           THEN IF error = ""
                THEN /\ pest_records' = Append(pest_records, data)
                     /\ sess' = [sess EXCEPT ![p] =
                            NextPestRow([s EXCEPT !.success_count = s.success_count + 1,
                                                  !.row_inserted = s.row_inserted + 1], FALSE)]
                ELSE /\ UNCHANGED pest_records
                     /\ sess' = [sess EXCEPT ![p] =
                            NextPestRow([s EXCEPT !.errors = Append(s.errors, RowError(s.i, error))], TRUE)]
           ELSE /\ UNCHANGED pest_records
                /\ sess' = [sess EXCEPT ![p] = NextPestRow(s, FALSE)]
    /\ UNCHANGED <<calc, audit, conn, backend, area_points, environmental_data, dataset_uploads,
                   dataset_processing, activity_logs, wlock, ncalls, nadmin, nledger>>

\* after the loop: log_activity(import, pest) and the result
PestLog(p) ==
    /\ sess[p].pc = "pest_log"
    /\ LET s == sess[p]
       IN  IF Locked(p)
           THEN /\ sess' = [sess EXCEPT ![p] = PageExcept(s, "pest", "database is locked")]
                /\ UNCHANGED activity_logs
           ELSE /\ activity_logs' = log_activity(activity_logs, p, "import", "pest")
                /\ sess' = [sess EXCEPT ![p] =
                       [s EXCEPT !.pc = IF s.kind = "upload" THEN "update" ELSE "done",
                                 !.success_count = 0, !.errors = <<>>,
                                 !.results = [s.results EXCEPT
                                     !.pest = <<Result(s.success_count, s.errors)>>]]]
    /\ UNCHANGED <<calc, audit, conn, backend, area_points, environmental_data, pest_records, dataset_uploads,
                   dataset_processing, wlock, ncalls, nadmin, nledger>>

\* update_dataset_upload(upload_id, {'processing_status': 'completed'}), then
\* log_activity(upload, dataset) and the success message
UpdateStatus(p) ==
    /\ sess[p].pc = "update"
    /\ LET s == sess[p]
       IN  IF ~sqlite_update_record_ok("dataset_uploads") \/ Locked(p)
           THEN /\ sess' = [sess EXCEPT ![p] =
                       PageExcept(s, "update", IF ~sqlite_update_record_ok("dataset_uploads")
                                               THEN "no such column: updated_at"
                                               ELSE "database is locked")]
                /\ UNCHANGED <<dataset_uploads, activity_logs>>
           ELSE /\ dataset_uploads' = [dataset_uploads EXCEPT
                                          ![s.upload_id].processing_status = "completed"]
                /\ activity_logs' = log_activity(activity_logs, p, "upload", "dataset")
                /\ sess' = [sess EXCEPT ![p] = [s EXCEPT !.pc = "done"]]
    /\ UNCHANGED <<calc, audit, conn, backend, area_points, environmental_data, pest_records,
                   dataset_processing, wlock, ncalls, nadmin, nledger>>

\* the user leaves the page: the call's locals are gone
Reset(p) ==
    /\ sess[p].pc = "done"
    /\ sess' = [sess EXCEPT ![p] = IdleSession]
    /\ UNCHANGED <<calc, audit, conn, backend, area_points, environmental_data, pest_records, dataset_uploads,
                   dataset_processing, activity_logs, wlock, ncalls, nadmin, nledger>>

ImportStep(p) ==
    \/ EnvRow(p)
    \/ EnvCommit(p)
    \/ PestGuard(p)
    \/ PestRbb(p)
    \/ PestWsb(p)
    \/ PestLog(p)
    \/ UpdateStatus(p)
    \/ Reset(p)

\* ------------------- MongoDB bulk_create_environmental_data(records)
\* the value the function returns: the number of inserted ids, or 0 from the
\* `except Exception` when insert_many raised (a write error, an empty list)
mongo_bulk_return(inserted, write_errors, n) ==
    IF n = 0 \/ write_errors # <<>> THEN 0 ELSE inserted

\* the call up to insert_many: every area point of the records must exist
MongoBulkStart(p, df, ap) ==
    /\ backend = "mongo"
    /\ sess[p].pc = "idle"
    /\ ncalls[p] < MaxCalls
    /\ ncalls' = [ncalls EXCEPT ![p] = ncalls[p] + 1]
    /\ LET s0 == [IdleSession EXCEPT !.kind = "mongo_bulk", !.df = df, !.area_point_id = ap,
                                     !.env_invoked = area_points[ap], !.i = 1]
           records == env_records(s0, p)
       IN  sess' = [sess EXCEPT ![p] =
               IF Len(records) > 0 /\ ~mongo_validate_area_point_exists(ap)
               THEN [s0 EXCEPT !.pc = "done", !.raised = "guard"]
               ELSE IF Len(records) = 0
               THEN [s0 EXCEPT !.pc = "done",
                               !.results = [NoResults EXCEPT !.environmental =
                                               <<[success |-> mongo_bulk_return(0, <<>>, 0)]>>]]
               ELSE [s0 EXCEPT !.pc = "mongo_insert"]]
    /\ UNCHANGED <<calc, audit, conn, backend, area_points, environmental_data, pest_records, dataset_uploads,
                   dataset_processing, activity_logs, wlock, nadmin, nledger>>

\* insert_many(records, ordered=False): the server takes the documents one
\* by one, a duplicate key is a write error and the others are still inserted
MongoInsert(p) ==
    /\ sess[p].pc = "mongo_insert"
    /\ LET s == sess[p]
           records == env_records(s, p)
           doc == records[s.i]
           dup == mongo_duplicate_key(environmental_data, doc)
           errors == IF dup THEN Append(s.errors, RowError(s.i, "E11000 duplicate key")) ELSE s.errors
           inserted == IF dup THEN s.success_count ELSE s.success_count + 1
           s1 == [s EXCEPT !.errors = errors, !.success_count = inserted,
                           !.env_attempts = Append(s.env_attempts, IF dup THEN "dup" ELSE "ok")]
       IN  /\ environmental_data' = IF dup THEN environmental_data ELSE Append(environmental_data, doc)
           /\ sess' = [sess EXCEPT ![p] =
                  IF s.i < Len(records)
                  THEN [s1 EXCEPT !.i = s.i + 1]
                  ELSE [s1 EXCEPT !.pc = "done",
                                  !.results = [s.results EXCEPT !.environmental =
                                      <<[success |-> mongo_bulk_return(inserted, errors, Len(records))]>>]]]
    /\ UNCHANGED <<calc, audit, conn, backend, area_points, pest_records, dataset_uploads,
                   dataset_processing, activity_logs, wlock, ncalls, nadmin, nledger>>

\* ------------------------------------------- single-statement operations
\* a sqlite write waits while another connection's transaction is open
StoreFree == backend = "mongo" \/ wlock = ""

AdminFrame == UNCHANGED <<calc, audit, conn, backend, wlock, sess, ncalls, nledger>>
LedgerFrame == UNCHANGED <<calc, audit, conn, backend, wlock, sess, ncalls, nadmin>>

\* create_area_point: the insert fails on an area_point_id already stored
create_area_point(user, area_point_id) ==
    /\ nadmin < MaxAdminOps /\ StoreFree
    /\ area_points[area_point_id] = "absent"
    /\ area_points' = [area_points EXCEPT ![area_point_id] = "active"]
    /\ activity_logs' = log_activity(activity_logs, user, "create", "area_point")
    /\ nadmin' = nadmin + 1
    /\ AdminFrame
    /\ UNCHANGED <<environmental_data, pest_records, dataset_uploads, dataset_processing>>

\* a delete that removes the row of the area point
hard_delete_area_point(user, area_point_id) ==
    /\ nadmin < MaxAdminOps /\ StoreFree
    /\ area_points[area_point_id] # "absent"
    /\ area_points' = [area_points EXCEPT ![area_point_id] = "absent"]
    /\ activity_logs' = log_activity(activity_logs, user, "delete", "area_point")
    /\ nadmin' = nadmin + 1
    /\ AdminFrame
    /\ UNCHANGED <<environmental_data, pest_records, dataset_uploads, dataset_processing>>

\* delete_area_point: is_active is cleared, the row stays
delete_area_point(user, area_point_id) ==
    /\ nadmin < MaxAdminOps /\ StoreFree
    /\ area_points[area_point_id] # "absent"
    /\ area_points' = [area_points EXCEPT ![area_point_id] = "inactive"]
    /\ activity_logs' = log_activity(activity_logs, user, "delete", "area_point")
    /\ nadmin' = nadmin + 1
    /\ AdminFrame
    /\ UNCHANGED <<environmental_data, pest_records, dataset_uploads, dataset_processing>>

EntryDates == {<<2024, 1, 1>>}
valid_sources == {"nasa_power", "microclimate", "manual"}

\* create_environmental_data: one record; the sqlite module raises on an
\* area point that is missing or inactive and on a duplicate triple, the
\* MongoDB module raises on a missing area point and returns None on a
\* duplicate triple
create_environmental_data(user, area_point_id, date, source) ==
    /\ nadmin < MaxAdminOps /\ StoreFree
    /\ source \in valid_sources
    /\ LET data == [area_point_id |-> area_point_id, date |-> date, date_type |-> "str",
                    source |-> source, created_by |-> user]
       IN  IF backend = "sqlite"
           THEN /\ sqlite_validate_area_point_exists(area_point_id)
                /\ ~sqlite_unique_violation(environmental_data, data)
                /\ environmental_data' = Append(environmental_data, data)
           ELSE /\ mongo_validate_area_point_exists(area_point_id)
                /\ ~mongo_duplicate_key(environmental_data, data)
                /\ environmental_data' = Append(environmental_data, data)
    /\ activity_logs' = log_activity(activity_logs, user, "create", "environmental")
    /\ nadmin' = nadmin + 1
    /\ AdminFrame
    /\ UNCHANGED <<area_points, pest_records, dataset_uploads, dataset_processing>>

ProcessingStatuses == {"pending", "processing", "completed", "failed"}

\* MongoDB create_dataset_upload: processing_status is "pending"
mongo_create_dataset_upload(user) ==
    /\ backend = "mongo"
    /\ nledger < MaxLedgerOps
    /\ dataset_uploads' = Append(dataset_uploads,
            [uploader |-> user, processing_status |-> "pending", validation_status |-> "pending"])
    /\ activity_logs' = log_activity(activity_logs, user, "upload", "dataset")
    /\ nledger' = nledger + 1
    /\ LedgerFrame
    /\ UNCHANGED <<area_points, environmental_data, pest_records, dataset_processing>>

\* MongoDB update_dataset_upload(upload_id, **kwargs): $set of the fields given
mongo_update_dataset_upload(upload_id, processing_status) ==
    /\ backend = "mongo"
    /\ nledger < MaxLedgerOps
    /\ upload_id \in 1..Len(dataset_uploads)
    /\ dataset_uploads' = [dataset_uploads EXCEPT ![upload_id].processing_status = processing_status]
    /\ nledger' = nledger + 1
    /\ LedgerFrame
    /\ UNCHANGED <<area_points, environmental_data, pest_records, dataset_processing, activity_logs>>

\* MongoDB create_dataset_processing: one outcome row for an upload and a domain
create_dataset_processing(upload_id, domain) ==
    /\ backend = "mongo"
    /\ nledger < MaxLedgerOps
    /\ upload_id \in 1..Len(dataset_uploads)
    /\ dataset_processing' = Append(dataset_processing,
            [upload_id |-> upload_id, domain |-> domain, records_processed |-> 0, records_failed |-> 0])
    /\ nledger' = nledger + 1
    /\ LedgerFrame
    /\ UNCHANGED <<area_points, environmental_data, pest_records, dataset_uploads, activity_logs>>

StoreOp ==
    \/ \E a \in AreaPointIds : create_area_point("u2", a)
    \/ \E a \in AreaPointIds : delete_area_point("u2", a)
    \/ \E a \in AreaPointIds, d \in EntryDates : create_environmental_data("u2", a, d, "manual")

LedgerOp ==
    \/ \E u \in Users : mongo_create_dataset_upload(u)
    \/ \E k \in 1..MaxLedgerOps, st \in ProcessingStatuses : mongo_update_dataset_upload(k, st)
    \/ \E k \in 1..MaxLedgerOps, dom \in {"environmental", "pest"} : create_dataset_processing(k, dom)

\* Uploads and imports of one user, one at a time, with the area-point and
\* single-record operations of another user in between their steps.
Next ==
    \/ \E df \in Tables, ap \in AreaPointIds, ie \in BOOLEAN, ip \in BOOLEAN :
            Upload("u1", df, ap, ie, ip)
    \/ \E df \in RecordTables, ap \in AreaPointIds : SqliteBulkStart("u1", df, ap)
    \/ \E df \in RecordTables, ap \in AreaPointIds : MongoBulkStart("u1", df, ap)
    \/ ImportStep("u1")
    \/ MongoInsert("u1")
    \/ StoreOp
Spec == Init /\ [][Next]_vars

\* The upload ledger's own operations.
NextLedger == LedgerOp
SpecLedger == Init /\ [][NextLedger]_vars

\* Two users importing environmental data at the same time.
NextConc ==
    \/ \E p \in Users, df \in RecordTables, ap \in AreaPointIds : Upload(p, df, ap, TRUE, FALSE)
    \/ \E p \in Users, df \in RecordTables, ap \in AreaPointIds : SqliteBulkStart(p, df, ap)
    \/ \E p \in Users, df \in RecordTables, ap \in AreaPointIds : MongoBulkStart(p, df, ap)
    \/ \E p \in Users : EnvRow(p) \/ EnvCommit(p) \/ UpdateStatus(p) \/ MongoInsert(p)
SpecConc == Init /\ [][NextConc]_vars

\* --------------------------------------------- single-record operations
\* The calls below are made by one user, one after the other; each leaves in
\* audit.last what it did: whether it raised, whether it changed a record and
\* whether it appended an activity log entry.
AuditFrame == UNCHANGED <<calc, conn, backend, wlock, sess, ncalls, nadmin, nledger,
                          dataset_uploads, dataset_processing>>
\* a call is made while no bulk import of the session is under way
AuditTurn == audit.n < MaxAuditOps /\ \A p \in Users : sess[p].pc \in {"idle", "done"}
Called(c) == [n |-> audit.n + 1, last |-> c]
RemoveAt(seq, k) == SubSeq(seq, 1, k - 1) \o SubSeq(seq, k + 1, Len(seq))

\* the data of a pest observation (year, month and day are given with the date)
PestTypes == {"rbb", "moth"}
PestCounts == {-1, 2}
Observation(user, area_point_id, pest_type, count) ==
    [area_point_id |-> area_point_id, pest_type |-> pest_type, date |-> <<2024, 1, 1>>,
     date_type |-> "str", count |-> count, created_by |-> user]

\* validate_pest_record: required fields, pest_type, count not negative
validate_pest_record(data) ==
    data.area_point_id # "" /\ data.pest_type \in {"rbb", "wsb"} /\ data.count >= 0

\* pest_management.create_pest_observation(data, created_by)
create_pest_observation(user, area_point_id, pest_type, count) ==
    /\ backend = "sqlite" /\ AuditTurn
    /\ LET data == Observation(user, area_point_id, pest_type, count)
           ok == /\ validate_pest_record(data)
                 /\ sqlite_validate_area_point_exists(area_point_id)
                 /\ sqlite_create_pest_record_error(user, data) = ""
       IN  /\ pest_records' = IF ok THEN Append(pest_records, data) ELSE pest_records
           /\ activity_logs' = IF ok THEN log_activity(activity_logs, user, "create", "pest")
                               ELSE activity_logs
           /\ audit' = Called(Call("create_pest_observation", "create", "pest", ~ok, ok, ok))
    /\ AuditFrame
    /\ UNCHANGED <<area_points, environmental_data>>

\* pest_management.update_pest_observation(record_id, data, updated_by) with
\* data = {'pest_type': ...} or {'count': ...}: UPDATE ... WHERE id=? changes
\* the row when there is one, and the call is logged either way
update_pest_observation(user, record_id, field, value) ==
    /\ backend = "sqlite" /\ AuditTurn
    /\ LET raises == field = "pest_type" /\ value \notin {"rbb", "wsb"}
           found == record_id \in 1..Len(pest_records)
       IN  /\ pest_records' =
                  IF raises \/ ~found THEN pest_records
                  ELSE IF field = "pest_type"
                       THEN [pest_records EXCEPT ![record_id].pest_type = value]
                       ELSE [pest_records EXCEPT ![record_id].count = value]
           /\ activity_logs' = IF raises THEN activity_logs
                               ELSE log_activity(activity_logs, user, "update", "pest")
           /\ audit' = Called(Call("update_pest_observation", "update", "pest", raises,
                                   ~raises /\ found, ~raises))
    /\ AuditFrame
    /\ UNCHANGED <<area_points, environmental_data>>

\* pest_management.delete_pest_observation(record_id, deleted_by)
delete_pest_observation(user, record_id) ==
    /\ backend = "sqlite" /\ AuditTurn
    /\ LET found == record_id \in 1..Len(pest_records)
       IN  /\ pest_records' = IF found THEN RemoveAt(pest_records, record_id) ELSE pest_records
           /\ activity_logs' = log_activity(activity_logs, user, "delete", "pest")
           /\ audit' = Called(Call("delete_pest_observation", "delete", "pest", FALSE, found, TRUE))
    /\ AuditFrame
    /\ UNCHANGED <<area_points, environmental_data>>

\* the tables a caller of update_record / delete_record names
RecordStores == {"pest_records", "activity_logs"}
\* the ids a caller passes: the first row of a table
RecordIds == {1}

\* sqlite update_record(table_name, record_id, {'count': count}): UPDATE
\* <table> SET count=?, updated_at=CURRENT_TIMESTAMP WHERE id=?; no
\* validation, no log entry
update_record(table_name, record_id, count) ==
    /\ backend = "sqlite" /\ AuditTurn
    /\ LET ok == sqlite_update_record_ok(table_name)
           found == table_name = "pest_records" /\ record_id \in 1..Len(pest_records)
       IN  /\ pest_records' = IF ok /\ found
                               THEN [pest_records EXCEPT ![record_id].count = count]
                               ELSE pest_records
           /\ audit' = Called(Call("update_record", "update", table_name, ~ok, ok /\ found, FALSE))
    /\ AuditFrame
    /\ UNCHANGED <<area_points, environmental_data, activity_logs>>

\* sqlite delete_record(table_name, record_id): DELETE FROM <table> WHERE id=?
\* (the pest page calls it on pest_records and appends no log entry)
delete_record(table_name, record_id) ==
    /\ backend = "sqlite" /\ AuditTurn
    /\ LET pest == table_name = "pest_records" /\ record_id \in 1..Len(pest_records)
           logs == table_name = "activity_logs" /\ record_id \in 1..Len(activity_logs)
       IN  /\ pest_records' = IF pest THEN RemoveAt(pest_records, record_id) ELSE pest_records
           /\ activity_logs' = IF logs THEN RemoveAt(activity_logs, record_id) ELSE activity_logs
           /\ audit' = Called(Call("delete_record", "delete", table_name, FALSE, pest, FALSE))
    /\ AuditFrame
    /\ UNCHANGED <<area_points, environmental_data>>

\* MongoDB create_pest_record(area_point_id, pest_type, date, count, ...)
mongo_create_pest_record(user, area_point_id, pest_type, count) ==
    /\ backend = "mongo" /\ AuditTurn
    /\ LET ok == mongo_validate_area_point_exists(area_point_id) /\ pest_type \in {"rbb", "wsb"}
       IN  /\ pest_records' = IF ok
                               THEN Append(pest_records, Observation(user, area_point_id, pest_type, count))
                               ELSE pest_records
           /\ activity_logs' = IF ok THEN log_activity(activity_logs, user, "create", "pest")
                               ELSE activity_logs
           /\ audit' = Called(Call("create_pest_record", "create", "pest", ~ok, ok, ok))
    /\ AuditFrame
    /\ UNCHANGED <<area_points, environmental_data>>

\* MongoDB update_pest_record(record_id, **kwargs): $set of the fields given
mongo_update_pest_record(record_id, field, value) ==
    /\ backend = "mongo" /\ AuditTurn
    /\ LET found == record_id \in 1..Len(pest_records)
       IN  /\ pest_records' =
                  IF ~found THEN pest_records
                  ELSE IF field = "pest_type"
                       THEN [pest_records EXCEPT ![record_id].pest_type = value]
                       ELSE [pest_records EXCEPT ![record_id].count = value]
           /\ audit' = Called(Call("update_pest_record", "update", "pest", FALSE, found, FALSE))
    /\ AuditFrame
    /\ UNCHANGED <<area_points, environmental_data, activity_logs>>

\* MongoDB delete_pest_record(record_id, user)
mongo_delete_pest_record(user, record_id) ==
    /\ backend = "mongo" /\ AuditTurn
    /\ LET found == record_id \in 1..Len(pest_records)
       IN  /\ pest_records' = IF found THEN RemoveAt(pest_records, record_id) ELSE pest_records
           /\ activity_logs' = IF found THEN log_activity(activity_logs, user, "delete", "pest")
                               ELSE activity_logs
           /\ audit' = Called(Call("delete_pest_record", "delete", "pest", FALSE, found, found))
    /\ AuditFrame
    /\ UNCHANGED <<area_points, environmental_data>>

\* log_activity(user, action, module, ...) called with any two words
LogActions == {"import", "purge"}
LogModules == {"pest", "billing"}
LogActivity(user, action, module) ==
    /\ AuditTurn
    /\ activity_logs' = log_activity(activity_logs, user, action, module)
    /\ audit' = Called(Call("log_activity", action, module,
                            action \notin valid_actions \/ module \notin valid_modules,
                            FALSE, action \in valid_actions /\ module \in valid_modules))
    /\ AuditFrame
    /\ UNCHANGED <<area_points, environmental_data, pest_records>>

\* update_area_point: name, coordinates and description of a stored point;
\* MongoDB logs when a document was modified, the sqlite module raises on an
\* unknown point and the page logs after the call
update_area_point(user, area_point_id) ==
    /\ nadmin < MaxAdminOps /\ StoreFree
    /\ area_points' = area_points
    /\ activity_logs' = IF area_points[area_point_id] # "absent"
                        THEN log_activity(activity_logs, user, "update", "area_point")
                        ELSE activity_logs
    /\ nadmin' = nadmin + 1
    /\ AdminFrame
    /\ UNCHANGED <<environmental_data, pest_records, dataset_uploads, dataset_processing>>

\* bulk_import_pest_data(df, area_point_id, created_by) called with the pest
\* projection of a table, its date column holding text; the import is the
\* first call of the session
PestBulkStart(p, df, ap) ==
    /\ backend = "sqlite"
    /\ audit.n = 0
    /\ sess[p].pc = "idle"
    /\ ncalls[p] < MaxCalls
    /\ ncalls' = [ncalls EXCEPT ![p] = ncalls[p] + 1]
    /\ sess' = [sess EXCEPT ![p] =
           [IdleSession EXCEPT !.kind = "pest_bulk", !.df = df, !.area_point_id = ap,
                               !.import_pest = TRUE, !.pc = "pest_guard"]]
    /\ UNCHANGED <<calc, audit, conn, backend, area_points, environmental_data, pest_records,
                   dataset_uploads, dataset_processing, activity_logs, wlock, nadmin, nledger>>

\* the stores a session of single-record calls starts from
InitAudit ==
    /\ backend \in {"sqlite", "mongo"}
    /\ area_points \in {[AP1 |-> a, AP2 |-> "absent"] : a \in {"active", "inactive"}}
    /\ environmental_data = <<>>
    /\ pest_records = <<>>
    /\ dataset_uploads = <<>>
    /\ dataset_processing = <<>>
    /\ activity_logs = <<>>
    /\ wlock = ""
    /\ sess = [u \in Users |-> IdleSession]
    /\ ncalls = [u \in Users |-> 0]
    /\ nadmin = 0
    /\ nledger = 0
    /\ calc = NoCalc
    /\ audit = NoAudit
    /\ conn = NoConn

NextAudit ==
    \/ \E a \in AreaPointIds, t \in PestTypes, c \in PestCounts : create_pest_observation("u2", a, t, c)
    \/ \E k \in RecordIds, t \in PestTypes : update_pest_observation("u2", k, "pest_type", t)
    \/ \E k \in RecordIds, c \in PestCounts : update_pest_observation("u2", k, "count", c)
    \/ \E k \in RecordIds : delete_pest_observation("u2", k)
    \/ \E t \in RecordStores, k \in RecordIds, c \in PestCounts : update_record(t, k, c)
    \/ \E t \in RecordStores, k \in RecordIds : delete_record(t, k)
    \/ \E a \in AreaPointIds, t \in PestTypes, c \in PestCounts : mongo_create_pest_record("u2", a, t, c)
    \/ \E k \in RecordIds, t \in PestTypes : mongo_update_pest_record(k, "pest_type", t)
    \/ \E k \in RecordIds, c \in PestCounts : mongo_update_pest_record(k, "count", c)
    \/ \E k \in RecordIds : mongo_delete_pest_record("u2", k)
    \/ \E a \in LogActions, m \in LogModules : LogActivity("u2", a, m)
    \/ \E a \in AreaPointIds : create_area_point("u2", a)
    \/ \E a \in AreaPointIds : update_area_point("u2", a)
    \/ \E a \in AreaPointIds : delete_area_point("u2", a)
    \/ \E df \in RecordTables, ap \in AreaPointIds : PestBulkStart("u1", df, ap)
    \/ PestGuard("u1") \/ PestRbb("u1") \/ PestWsb("u1") \/ PestLog("u1")
SpecAudit == InitAudit /\ [][NextAudit]_vars

\* ------------------------------------------------ the MongoDB connection
\* conn.client and conn.db are the module globals _client and _db: 0 is None,
\* k is the k-th MongoClient made (for _db, its database handle). conn.pinged
\* holds the clients whose ping succeeded, conn.closed the clients closed,
\* conn.returned what each call of get_db gave its caller.
ConnFrame ==
    UNCHANGED <<calc, audit, backend, area_points, environmental_data, pest_records,
                dataset_uploads, dataset_processing, activity_logs, wlock, sess, ncalls,
                nadmin, nledger>>
ConnOutcomes == {"connected", "constructor_raises", "ping_raises"}
GotHandle(c, handle) ==
    [raised |-> FALSE, handle |-> handle, tested |-> handle \in c.pinged,
     closed |-> handle \in c.closed]
GotError == [raised |-> TRUE, handle |-> 0, tested |-> FALSE, closed |-> FALSE]

\* get_db(): a client is made and pinged only `if _client is None`; _client
\* and _db are assigned before the ping, and the except clause re-raises
\* without resetting them
get_db(outcome) ==
    /\ conn.calls < MaxConnCalls
    /\ IF conn.client = 0
       THEN IF outcome = "constructor_raises"
            THEN conn' = [conn EXCEPT !.calls = @ + 1, !.returned = Append(@, GotError)]
            ELSE LET k == conn.made + 1
                     made == [conn EXCEPT !.calls = @ + 1, !.made = k, !.client = k, !.db = k]
                 IN  IF outcome = "ping_raises"
                     THEN conn' = [made EXCEPT !.returned = Append(@, GotError)]
                     ELSE LET ok == [made EXCEPT !.pinged = @ \cup {k}]
                          IN  conn' = [ok EXCEPT !.returned = Append(@, GotHandle(ok, k))]
       ELSE /\ outcome = "connected"
            /\ conn' = [conn EXCEPT !.calls = @ + 1,
                                    !.returned = Append(@, GotHandle(conn, conn.db))]
    /\ ConnFrame

\* close_connection(): `if _client:` close it and set _client to None; _db
\* keeps the handle of the closed client
close_connection ==
    /\ conn.calls < MaxConnCalls
    /\ conn' = IF conn.client # 0
               THEN [conn EXCEPT !.calls = @ + 1, !.closed = @ \cup {conn.client}, !.client = 0]
               ELSE [conn EXCEPT !.calls = @ + 1]
    /\ ConnFrame

InitConn ==
    /\ backend = "mongo"
    /\ area_points = [a \in AreaPointIds |-> "absent"]
    /\ environmental_data = <<>>
    /\ pest_records = <<>>
    /\ dataset_uploads = <<>>
    /\ dataset_processing = <<>>
    /\ activity_logs = <<>>
    /\ wlock = ""
    /\ sess = [u \in Users |-> IdleSession]
    /\ ncalls = [u \in Users |-> 0]
    /\ nadmin = 0
    /\ nledger = 0
    /\ calc = NoCalc
    /\ audit = NoAudit
    /\ conn = NoConn

NextConn ==
    \/ \E outcome \in ConnOutcomes : get_db(outcome)
    \/ close_connection
SpecConn == InitConn /\ [][NextConn]_vars

\* ------------------------------------------ the data_processing call chain
\* The tables of one call chain are Python objects: a frame names its columns,
\* the block of the heap that holds its cells, and its stored date column.
FrameNames == {"input", "norm", "norm2", "environmental", "pest", "metadata", "prepared"}
DomainNames == {"environmental", "pest", "metadata"}

\* a selection that stays a view on the cells of its source
SameBlock(heap, src) == [heap |-> heap, buf |-> src]

\* DataFrame.copy(): the new table owns a new block holding the same cells
CopyOf(heap, src) == [heap |-> Append(heap, heap[src]), buf |-> Len(heap) + 1]

\* pd.DataFrame(): a new table without cells
EmptyBlock(heap) == [heap |-> Append(heap, <<>>), buf |-> Len(heap) + 1]

FrameOf(c, n) == c.frames[n][1]
TableOf(c, n) == [columns |-> FrameOf(c, n).columns, rows |-> c.heap[FrameOf(c, n).buf]]
View(c, n) == [columns |-> FrameOf(c, n).columns, rows |-> c.heap[FrameOf(c, n).buf],
               date |-> FrameOf(c, n).date]
Dates(table) == [i \in 1..Len(table.rows) |-> DateOf(table.rows[i])]

\* the chain right after the table was read
Loaded(df) ==
    LET input == [columns |-> df.columns, buf |-> 1, date |-> <<>>]
    IN  [pc |-> "loaded", heap |-> <<df.rows>>,
         frames |-> [n \in FrameNames |-> IF n = "input" THEN <<input>> ELSE <<>>],
         validation |-> <<>>, chop_of |-> "", prepared_of |-> "", raised |-> FALSE,
         \* history, read by the properties only: each table as its call returned
         \* it, and the tables the caller wrote to afterwards
         returned |-> [n \in FrameNames |->
                          IF n = "input"
                          THEN <<[columns |-> df.columns, rows |-> df.rows, date |-> <<>>]>>
                          ELSE <<>>],
         written |-> {}]

InitPure ==
    /\ backend = "sqlite"
    /\ area_points = [a \in AreaPointIds |-> IF a = "AP1" THEN "active" ELSE "absent"]
    /\ environmental_data = <<>>
    /\ pest_records = <<>>
    /\ dataset_uploads = <<>>
    /\ dataset_processing = <<>>
    /\ activity_logs = <<>>
    /\ wlock = ""
    /\ sess = [u \in Users |-> IdleSession]
    /\ ncalls = [u \in Users |-> 0]
    /\ nadmin = 0
    /\ nledger = 0
    /\ calc \in {Loaded(df) : df \in PureTables}
    /\ audit = NoAudit
    /\ conn = NoConn

PureFrame ==
    UNCHANGED <<backend, area_points, environmental_data, pest_records, dataset_uploads,
                dataset_processing, activity_logs, wlock, sess, ncalls, nadmin, nledger,
                audit, conn>>

\* the chain after a call returned the frame f as table n
Returns(c, heap, n, f) ==
    [c EXCEPT !.heap = heap, !.frames[n] = <<f>>,
              !.returned[n] = <<[columns |-> f.columns, rows |-> heap[f.buf], date |-> f.date]>>]

\* df_renamed = df.copy(); df_renamed.rename(columns=rename_dict, inplace=True)
CallNormalize(src, dst) ==
    /\ calc.pc = "loaded"
    /\ calc.frames[src] # <<>> /\ calc.frames[dst] = <<>>
    /\ calc.written = {}
    /\ LET blk == CopyOf(calc.heap, FrameOf(calc, src).buf)
           renamed == normalize_column_names(TableOf(calc, src))
       IN  calc' = Returns(calc, blk.heap, dst,
                           [columns |-> renamed.columns, buf |-> blk.buf,
                            date |-> FrameOf(calc, src).date])
    /\ PureFrame

\* validation_result = validate_pest_dataset(df)
CallValidate(src) ==
    /\ calc.pc = "loaded"
    /\ calc.frames[src] # <<>>
    /\ calc.validation = <<>>
    /\ calc.written = {}
    /\ LET df == TableOf(calc, src)
       IN  calc' = [calc EXCEPT !.validation =
                        <<[of |-> src, df |-> df, raised |-> validate_raises(df),
                           result |-> IF validate_raises(df) THEN <<>>
                                      ELSE <<validate_pest_dataset(df)>>]>>]
    /\ PureFrame

\* one projection of chop_dataset_by_domain as an object of its own
DomainFrame(heap, src, proj) ==
    LET blk == IF proj.columns = <<>> THEN EmptyBlock(heap) ELSE CopyOf(heap, src.buf)
    IN  [heap |-> blk.heap,
         frame |-> [columns |-> proj.columns, buf |-> blk.buf,
                    date |-> IF Has(proj.columns, "date") THEN Dates(proj) ELSE <<>>]]

\* domains = chop_dataset_by_domain(df)
CallChop(src) ==
    /\ calc.pc = "loaded"
    /\ calc.frames[src] # <<>>
    /\ calc.chop_of = ""
    /\ calc.written = {}
    /\ LET domains == chop_dataset_by_domain(TableOf(calc, src))
           e == DomainFrame(calc.heap, FrameOf(calc, src), domains.environmental)
           p == DomainFrame(e.heap, FrameOf(calc, src), domains.pest)
           m == DomainFrame(p.heap, FrameOf(calc, src), domains.metadata)
       IN  calc' = [Returns(Returns(Returns(calc, m.heap, "environmental", e.frame),
                                    m.heap, "pest", p.frame),
                            m.heap, "metadata", m.frame)
                    EXCEPT !.chop_of = src]
    /\ PureFrame

\* prepare_for_database(domains[k], area_point_id, created_by)
CallPrepare(src) ==
    /\ calc.pc = "loaded"
    /\ calc.frames[src] # <<>>
    /\ calc.prepared_of = ""
    /\ calc.written = {}
    /\ LET blk == CopyOf(calc.heap, FrameOf(calc, src).buf)
           prepared == prepare_for_database(TableOf(calc, src), "AP1", "u1")
           date == IF Has(TableOf(calc, src).columns, "date") THEN FrameOf(calc, src).date
                   ELSE IF Has(prepared.columns, "date") THEN Dates(prepared) ELSE <<>>
       IN  calc' = [Returns(calc, blk.heap, "prepared",
                            [columns |-> prepared.columns, buf |-> blk.buf, date |-> date])
                    EXCEPT !.prepared_of = src, !.raised = prepared.raised]
    /\ PureFrame

\* the caller writes a cell of a table it holds: table.loc[0, 'Day'] = 28
SetCell(n) ==
    /\ calc.pc = "loaded"
    /\ calc.frames[n] # <<>>
    /\ calc.written = {}
    /\ \E c \in Range(FrameOf(calc, n).columns) : Lower(c) = "day"
    /\ Len(TableOf(calc, n).rows) > 0
    /\ TableOf(calc, n).rows[1].Day # 28
    /\ calc' = [calc EXCEPT !.heap[FrameOf(calc, n).buf][1].Day = 28, !.written = {n}]
    /\ PureFrame

\* the caller adds a column to a table it holds: table['flag'] = ...
AddColumn(n) ==
    /\ calc.pc = "loaded"
    /\ calc.frames[n] # <<>>
    /\ calc.written = {}
    /\ ~Has(FrameOf(calc, n).columns, "flag")
    /\ calc' = [calc EXCEPT !.frames[n][1].columns = Append(@, "flag"), !.written = {n}]
    /\ PureFrame

NextPure ==
    \/ CallNormalize("input", "norm")
    \/ CallNormalize("norm", "norm2")
    \/ \E src \in {"input", "norm"} : CallValidate(src)
    \/ \E src \in {"input", "norm"} : CallChop(src)
    \/ \E src \in DomainNames : CallPrepare(src)
    \/ \E n \in FrameNames : SetCell(n)
    \/ \E n \in FrameNames : AddColumn(n)
SpecPure == InitPure /\ [][NextPure]_vars

\* ---------------------------------------------------------------- properties
Count(seq, S) == Cardinality({k \in 1..Len(seq) : seq[k] \in S})

RECURSIVE SumInserted(_)
SumInserted(attempts) ==
    IF attempts = <<>> THEN 0 ELSE Head(attempts).inserted + SumInserted(Tail(attempts))

\* what a returned value reports: a dict carries failed and errors, a bare
\* count carries neither
FailedOf(r) == IF "failed" \in DOMAIN r THEN r.failed ELSE 0
ErrorsOf(r) == IF "errors" \in DOMAIN r THEN r.errors ELSE <<>>

NoDuplicateTriple(rows) ==
    \A i, j \in 1..Len(rows) : SameTriple(rows[i], rows[j]) => i = j

\* C1: a bulk importer that has returned attempted every one of its N rows,
\* committed the N-K rows that did not fail, and reports success = N-K and
\* failed = K with one error entry per failed row.
C1_PartialFailureCommit ==
    \A p \in Users :
        LET s == sess[p]
        IN  /\ s.results.environmental # <<>> =>
                LET r == s.results.environmental[1]
                    K == Count(s.env_attempts, {"fail", "dup"})
                IN  /\ Len(s.env_attempts) = Len(env_records(s, p))
                    /\ r.success = Len(s.env_attempts) - K
                    /\ FailedOf(r) = K
                    /\ Len(ErrorsOf(r)) = K
            /\ s.results.pest # <<>> =>
                LET r == s.results.pest[1]
                    K == Cardinality({k \in 1..Len(s.pest_attempts) : s.pest_attempts[k].failed})
                IN  /\ Len(s.pest_attempts) = Len(Domains(s).pest.rows)
                    /\ r.success = SumInserted(s.pest_attempts)
                    /\ FailedOf(r) = K
                    /\ Len(ErrorsOf(r)) = K

\* C2: an import invoked with an area point that does not exist or is
\* inactive never writes a record of its batch.
C2_ReferentialGuard ==
    \A p \in Users :
        LET s == sess[p]
        IN  /\ s.env_invoked \in {"absent", "inactive"} =>
                Count(s.env_attempts, {"ok"}) = 0 /\ s.tx = <<>>
            /\ s.pest_invoked \in {"absent", "inactive"} =>
                s.pest_attempts = <<>> /\ s.row_inserted = 0

\* C3: an upload whose normalized table validate_pest_dataset finds invalid
\* ends at once with the validation's error strings shown; it creates no
\* upload record, reaches neither importer and writes no row.
C3_BlockingValidation ==
    \A p \in Users :
        LET s == sess[p]
        IN  (s.kind = "upload" /\ ~s.valid) =>
                /\ s.pc = "done"
                /\ s.shown = validate_pest_dataset(normalize_column_names(s.df)).errors
                /\ s.shown # <<>>
                /\ s.raised = ""
                /\ s.upload_id = 0
                /\ s.env_invoked = "" /\ s.pest_invoked = ""
                /\ s.env_attempts = <<>> /\ s.pest_attempts = <<>>
                /\ s.tx = <<>> /\ s.row_inserted = 0
                /\ s.results = NoResults

\* an invalid file with rows was uploaded with both imports ticked
C3_Witness ==
    \E p \in Users :
        /\ sess[p].kind = "upload" /\ ~sess[p].valid /\ sess[p].pc = "done"
        /\ Len(sess[p].df.rows) > 0
        /\ sess[p].import_environmental /\ sess[p].import_pest

\* C4: the store never holds two environmental records with one
\* (area_point_id, date, source), and an importer that met an existing triple
\* counts that record as failed, with an error entry, never as a success.
C4_UniquenessGuard ==
    /\ NoDuplicateTriple(environmental_data)
    /\ \A p \in Users :
        LET s == sess[p]
        IN  s.results.environmental # <<>> =>
                LET r == s.results.environmental[1]
                    D == Count(s.env_attempts, {"dup"})
                IN  /\ FailedOf(r) >= D
                    /\ Len(ErrorsOf(r)) >= D
                    /\ r.success <= Len(s.env_attempts) - D

\* every environmental row written, committed or in an open transaction
AllWritten == environmental_data \o sess["u1"].tx \o sess["u2"].tx

\* C5: with two users importing at the same time, no (area_point_id, date,
\* source) is inserted twice, whatever the interleaving of their inserts.
C5_ConcurrentUniqueness == NoDuplicateTriple(AllWritten)

\* both users' imports carried one triple: one insert went in, the other was
\* rejected by the store
C5_Witness ==
    \E p, q \in Users :
        /\ p # q
        /\ sess[p].pc # "idle" /\ sess[q].pc # "idle"
        /\ sess[p].area_point_id = sess[q].area_point_id
        /\ "ok" \in Range(sess[p].env_attempts)
        /\ Len(sess[q].df.rows) = 1
        /\ sess[q].env_attempts = <<"dup">>

StatusOf(uploads, k) == uploads[k].processing_status
StatusEdges == {<<"pending", "processing">>, <<"processing", "completed">>,
                <<"processing", "failed">>}

\* C6: every upload record is created with processing_status pending, and a
\* record's processing_status changes only pending -> processing,
\* processing -> completed or processing -> failed.
C6_UploadJobStateMachine ==
    [][\A k \in 1..Len(dataset_uploads') :
            IF k > Len(dataset_uploads)
            THEN StatusOf(dataset_uploads', k) = "pending"
            ELSE \/ StatusOf(dataset_uploads', k) = StatusOf(dataset_uploads, k)
                 \/ <<StatusOf(dataset_uploads, k), StatusOf(dataset_uploads', k)>> \in StatusEdges]_vars

\* C7: an upload record whose processing_status is completed or failed keeps
\* that processing_status in every later step.
C7_TerminalAbsorbing ==
    [][\A k \in 1..Len(dataset_uploads) :
            StatusOf(dataset_uploads, k) \in {"completed", "failed"} =>
                StatusOf(dataset_uploads', k) = StatusOf(dataset_uploads, k)]_vars

\* C8: when the page has returned from an upload whose import raised after
\* the upload record was created, that record's processing_status is failed.
C8_BatchFailureMarksFailed ==
    \A p \in Users :
        LET s == sess[p]
        IN  (s.kind = "upload" /\ s.pc = "done" /\ s.upload_id # 0 /\ s.raised = "pest") =>
                StatusOf(dataset_uploads, s.upload_id) = "failed"

\* C9: when the page has returned from an upload whose import loops finished
\* without raising, the upload record's processing_status is completed,
\* whatever the importers counted as failed.
C9_CompletedAfterImport ==
    \A p \in Users :
        LET s == sess[p]
        IN  (s.kind = "upload" /\ s.pc = "done" /\ s.upload_id # 0 /\ s.raised # "pest") =>
                StatusOf(dataset_uploads, s.upload_id) = "completed"

ImportedDomains(s) == {dom \in {"environmental", "pest"} : s.results[dom] # <<>>}
OutcomesOf(upload_id, dom) ==
    {k \in 1..Len(dataset_processing) :
        dataset_processing[k].upload_id = upload_id /\ dataset_processing[k].domain = dom}

\* C10: every file taken by the page has its upload record, marked invalid
\* when the validation failed, and a completed upload has exactly one
\* processing row per imported domain, carrying that domain's counts.
C10_LedgerCompleteness ==
    \A p \in Users :
        LET s == sess[p]
        IN  (s.kind = "upload" /\ s.pc = "done" /\ s.raised # "create") =>
                /\ s.upload_id \in 1..Len(dataset_uploads)
                /\ dataset_uploads[s.upload_id].uploader = p
                /\ dataset_uploads[s.upload_id].validation_status =
                        (IF s.valid THEN "valid" ELSE "invalid")
                /\ StatusOf(dataset_uploads, s.upload_id) = "completed" =>
                        \A dom \in ImportedDomains(s) :
                            /\ Cardinality(OutcomesOf(s.upload_id, dom)) = 1
                            /\ \A k \in OutcomesOf(s.upload_id, dom) :
                                /\ dataset_processing[k].records_processed = s.results[dom][1].success
                                /\ dataset_processing[k].records_failed = s.results[dom][1].failed

\* the error entries of a result that name row k
ErrorsNaming(r, k) == {e \in 1..Len(ErrorsOf(r)) : ErrorsOf(r)[e].row = k}

\* C11: every row an upload handed to an importer is either stored (the
\* environmental record, at least one pest record) or named by an error
\* entry of that importer's result.
C11_NoSilentDataLoss ==
    \A p \in Users :
        LET s == sess[p]
        IN  s.kind = "upload" =>
                /\ s.results.environmental # <<>> =>
                        \A k \in 1..Len(s.env_attempts) :
                            s.env_attempts[k] # "ok" =>
                                ErrorsNaming(s.results.environmental[1], k) # {}
                /\ s.results.pest # <<>> =>
                        \A k \in 1..Len(s.pest_attempts) :
                            s.pest_attempts[k].inserted = 0 =>
                                ErrorsNaming(s.results.pest[1], k) # {}

\* every required column is present, whatever the case of its name
RequiredPresent(df) ==
    \A c \in Range(required_columns) : Lower(c) \in {Lower(d) : d \in Range(df.columns)}
NegativeRbbRows(df) == {i \in 1..Len(df.rows) : df.rows[i].RBB < 0}

C13_IdempotentNormalization ==
    (calc.pc = "loaded" /\ calc.frames["norm2"] # <<>>) =>
        /\ calc.returned["norm2"][1] = calc.returned["norm"][1]
        /\ normalize_column_names(normalize_column_names(calc.returned["input"][1])).columns
               = normalize_column_names(calc.returned["input"][1]).columns

C13_Witness ==
    /\ calc.pc = "loaded" /\ calc.frames["norm2"] # <<>>
    /\ calc.returned["input"][1].columns = CaseVariantColumns
    /\ calc.returned["norm"][1].columns # CaseVariantColumns
    /\ Len(calc.returned["norm2"][1].rows) > 0

\* the synonym-table key a column name is a case or spacing variant of
SynonymKey(c) == IF c = " year" THEN "year" ELSE Lower(c)

\* C14: normalize_column_names renames every column whose name is a case or
\* spacing variant of a synonym-table key to the canonical token, leaves every
\* other name alone, keeps the number and order of columns and the cells, and
\* leaves its input as it was.
C14_RenamesEveryVariant ==
    (calc.pc = "loaded" /\ calc.frames["norm"] # <<>>) =>
        LET input == calc.returned["input"][1]
            norm == calc.returned["norm"][1]
        IN  /\ Len(norm.columns) = Len(input.columns)
            /\ \A i \in 1..Len(input.columns) :
                   norm.columns[i] = IF SynonymKey(input.columns[i]) \in DOMAIN column_mapping
                                     THEN column_mapping[SynonymKey(input.columns[i])]
                                     ELSE input.columns[i]
            /\ norm.rows = input.rows
            /\ calc.written = {} => View(calc, "input") = input

\* the names of a list that no column of the table spells, in any case
AbsentFrom(df, names) == {c \in names : Lower(c) \notin {Lower(d) : d \in Range(df.columns)}}
RequiredNames == {"Year", "Week_Number", "Month", "Day", "RBB", "WSB"}
OptionalNames == {"T2M", "T2M_MIN", "T2M_MAX", "RH2M", "PRECTOTCORR"}

\* C15: when a required column is absent the validator returns valid = false
\* with the missing-column error as its only error, whatever the cells hold (no
\* range validation runs); absent environmental columns add one warning and no
\* error, so a table that lacks nothing else stays valid.
C15_MissingRequiredBlocks ==
    (calc.pc = "loaded" /\ calc.validation # <<>>) =>
        LET v == calc.validation[1]
            missing == AbsentFrom(v.df, RequiredNames)
            missing_env == AbsentFrom(v.df, OptionalNames)
        IN  /\ missing # {} =>
                   /\ ~v.raised
                   /\ ~v.result[1].valid
                   /\ v.result[1].errors =
                          <<ErrorLine("Missing required columns", Cardinality(missing))>>
            /\ ~v.raised =>
                   /\ v.result[1].warnings =
                          IF missing_env # {}
                          THEN <<ErrorLine("Missing environmental columns", Cardinality(missing_env))>>
                          ELSE <<>>
                   /\ \A k \in 1..Len(v.result[1].errors) :
                          v.result[1].errors[k].error # "Missing environmental columns"
                   /\ (missing = {} /\ v.df.rows = <<>>) => v.result[1].valid

C15_Witness ==
    /\ calc.pc = "loaded" /\ calc.validation # <<>>
    /\ calc.validation[1].df.columns = NoWsbColumns
    /\ calc.validation[1].df.rows = <<OutOfRangeRow>>
    /\ ~calc.validation[1].raised
    /\ ~calc.validation[1].result[1].valid
    /\ Len(calc.validation[1].result[1].warnings) = 1

\* the rows whose cell of a column is not a number of lo..hi
Offending(df, key, lo, hi) ==
    {i \in 1..Len(df.rows) :
        key \in df.rows[i].text \/ ~(lo <= Cell(df.rows[i], key) /\ Cell(df.rows[i], key) <= hi)}
\* the five range checks: error text and offending rows (pest counts have no upper limit)
RangeChecks(df) ==
    <<[what |-> "Invalid year", rows |-> Offending(df, "year", 2000, 2100)],
      [what |-> "Invalid month", rows |-> Offending(df, "month", 1, 12)],
      [what |-> "Invalid day", rows |-> Offending(df, "day", 1, 31)],
      [what |-> "Negative RBB", rows |-> Offending(df, "rbb", 0, 1000000)],
      [what |-> "Negative WSB", rows |-> Offending(df, "wsb", 0, 1000000)]>>
Violated(df) == {k \in 1..5 : RangeChecks(df)[k].rows # {}}

\* C16: on a normalized table with every required column and at least one row
\* the validator answers valid = true exactly when every row has its year in
\* 2000..2100, month in 1..12, day in 1..31 and non-negative RBB and WSB, and
\* its error list has exactly one line per violated check, carrying the
\* number of offending rows.
C16_ValidIffRanges ==
    (/\ calc.pc = "loaded" /\ calc.validation # <<>>
     /\ calc.validation[1].of = "norm"
     /\ AbsentFrom(calc.validation[1].df, RequiredNames) = {}
     /\ Len(calc.validation[1].df.rows) > 0) =>
        LET v == calc.validation[1]
        IN  /\ ~v.raised
            /\ v.result[1].valid <=> Violated(v.df) = {}
            /\ Len(v.result[1].errors) = Cardinality(Violated(v.df))
            /\ \A k \in Violated(v.df) :
                   Has(v.result[1].errors,
                       ErrorLine(RangeChecks(v.df)[k].what, Cardinality(RangeChecks(v.df)[k].rows)))

\* the same property for the tables on which the validator returns
C16_ValidIffRangesWhenReturned ==
    (/\ calc.pc = "loaded" /\ calc.validation # <<>>
     /\ calc.validation[1].of = "norm"
     /\ AbsentFrom(calc.validation[1].df, RequiredNames) = {}
     /\ Len(calc.validation[1].df.rows) > 0
     /\ ~calc.validation[1].raised) =>
        LET v == calc.validation[1]
        IN  /\ v.result[1].valid <=> Violated(v.df) = {}
            /\ Len(v.result[1].errors) = Cardinality(Violated(v.df))
            /\ \A k \in Violated(v.df) :
                   Has(v.result[1].errors,
                       ErrorLine(RangeChecks(v.df)[k].what, Cardinality(RangeChecks(v.df)[k].rows)))

\* C17: for every table (no rows, no columns, text in a required column) the
\* validator returns a result with the fields valid, errors, warnings,
\* row_count and column_count, never raises, and leaves the table it was
\* given as it was.
C17_ValidatorTotal ==
    (calc.pc = "loaded" /\ calc.validation # <<>>) =>
        LET v == calc.validation[1]
        IN  /\ ~v.raised
            /\ v.result # <<>>
            /\ DOMAIN v.result[1] = {"valid", "errors", "warnings", "row_count", "column_count"}
            /\ v.result[1].row_count = Len(v.df.rows)
            /\ v.result[1].column_count = Len(v.df.columns)
            /\ calc.written = {} => View(calc, v.of) = calc.returned[v.of][1]

\* the table was validated as valid, and that table was split
ValidatedAndChopped ==
    /\ calc.pc = "loaded"
    /\ calc.validation # <<>> /\ calc.validation[1].of = "norm"
    /\ ~calc.validation[1].raised /\ calc.validation[1].result[1].valid
    /\ calc.chop_of = "norm"
\* the columns of the split table that spell, in any case, a column of a domain
DomainColumns ==
    {c \in Range(calc.returned["norm"][1].columns) :
        Lower(c) \in {Lower(d) : d \in Range(env_columns) \cup Range(pest_columns)}}
ProjectionsWith(c) == {n \in DomainNames : Has(calc.returned[n][1].columns, c)}

\* C18: every column of a validated, normalized table that belongs to a domain
\* (temporal key, environmental, pest count, moon phase) is in exactly one of
\* the three projections of chop_dataset_by_domain.
C18_DomainCompleteness ==
    ValidatedAndChopped => \A c \in DomainColumns : Cardinality(ProjectionsWith(c)) = 1

\* the weaker half of it: no such column is missing from all three projections
C18_NoDomainColumnDropped ==
    ValidatedAndChopped => \A c \in DomainColumns : ProjectionsWith(c) # {}

\* C19: the three projections are independent copies: after the caller wrote
\* to one table (a cell, or a new column) each of the other projections and
\* the table that was split still has the columns, cells and dates it had
\* when chop_dataset_by_domain returned.
C19_IndependentCopies ==
    (calc.pc = "loaded" /\ calc.chop_of # "") =>
        \A n \in DomainNames \cup {calc.chop_of} :
            n \notin calc.written => View(calc, n) = calc.returned[n][1]

C19_Witness ==
    /\ calc.pc = "loaded" /\ calc.chop_of = "norm"
    /\ calc.written = {"environmental"}
    /\ View(calc, "environmental").rows # calc.returned["environmental"][1].rows
    /\ Len(View(calc, "pest").rows) > 0
    /\ Has(View(calc, "pest").columns, "date")

\* year, month and day of every row are numbers that name a day of the calendar
AllRowsDated(t) ==
    /\ \A c \in {"Year", "Month", "Day"} :
           Cardinality({i \in 1..Len(t.columns) : t.columns[i] = c}) = 1
    /\ \A i \in 1..Len(t.rows) :
           /\ t.rows[i].text \cap {"year", "month", "day"} = {}
           /\ t.rows[i].Month \in 1..12
           /\ t.rows[i].Day \in 1..DaysInMonth(t.rows[i].Year, t.rows[i].Month)

\* C20: a non-empty projection with Year, Month and Day has a date column,
\* computed from them for every row, exactly when every row can be dated;
\* when the derivation fails (day 31 of a 30-day month in a validated row)
\* chop_dataset_by_domain and prepare_for_database still return, and the
\* table has no date column for any row.
C20_DateDerivationTolerant ==
    calc.pc = "loaded" =>
        /\ ~calc.raised
        /\ \A n \in DomainNames : calc.returned[n] # <<>> =>
               LET t == calc.returned[n][1]
               IN  /\ Has(t.columns, "date") <=>
                          /\ Len(t.rows) > 0
                          /\ {"Year", "Month", "Day"} \subseteq Range(t.columns)
                          /\ AllRowsDated(t)
                   /\ t.date = IF Has(t.columns, "date")
                               THEN [i \in 1..Len(t.rows) |->
                                        <<t.rows[i].Year, t.rows[i].Month, t.rows[i].Day>>]
                               ELSE <<>>
        /\ calc.returned["prepared"] # <<>> =>
               LET t == calc.returned["prepared"][1]
               IN  /\ Has(t.columns, "date") =>
                          {"Year", "Month", "Day"} \subseteq Range(t.columns) /\ AllRowsDated(t)
                   /\ Len(t.date) = IF Has(t.columns, "date") THEN Len(t.rows) ELSE 0

C20_Witness ==
    /\ ValidatedAndChopped
    /\ calc.prepared_of = "pest"
    /\ calc.returned["pest"][1].rows = <<Row(2024, 4, 31, 0, 1)>>
    /\ {"Year", "Month", "Day"} \subseteq Range(calc.returned["pest"][1].columns)
    /\ ~Has(calc.returned["pest"][1].columns, "date")
    /\ ~Has(calc.returned["prepared"][1].columns, "date")

\* the records a step appends to a collection
Appended(before, after) == {after[k] : k \in (Len(before) + 1)..Len(after)}

\* C21: whenever a record is inserted into the environmental or the pest
\* collection (by a single create, by a bulk import, inside an open
\* transaction), its area point exists and is active at that moment, also
\* when area points are deactivated between the steps of the import.
C21_ActiveAtWriteTime ==
    [][\A rec \in Appended(environmental_data, environmental_data')
                  \cup Appended(pest_records, pest_records')
                  \cup UNION {Appended(sess[p].tx, sess'[p].tx) : p \in Users} :
            area_points[rec.area_point_id] = "active"]_vars

C23_PestRecordInvariant ==
    \A k \in 1..Len(pest_records) :
        pest_records[k].pest_type \in {"rbb", "wsb"} /\ pest_records[k].count >= 0

\* a step that is a call of log_activity by the caller
LogActivityStep == audit'.n = audit.n + 1 /\ audit'.last.op = "log_activity"
\* C24: log_activity raises for an action or a module outside the
\* vocabularies and then appends nothing; for an action and a module inside
\* them it returns and appends exactly one entry, the one of the call.
C24_LogActivityValidates ==
    [][LogActivityStep =>
          LET c == audit'.last
              inside == c.action \in valid_actions /\ c.module \in valid_modules
          IN  /\ c.raised = ~inside
              /\ inside => activity_logs' = Append(activity_logs, LogEntry("u2", c.action, c.module))
              /\ ~inside => activity_logs' = activity_logs]_vars
\* log_activity was called with an action outside the vocabulary and raised
C24_Witness ==
    /\ audit.last.op = "log_activity" /\ audit.last.action = "purge" /\ audit.last.raised
    /\ \A k \in 1..Len(activity_logs) : activity_logs[k].action # "purge"

\* C25: the activity log is append-only. The log before a step is a prefix of
\* the log after it: no step changes or removes an entry.
C25_AppendOnlyLog ==
    [][/\ Len(activity_logs) <= Len(activity_logs')
       /\ SubSeq(activity_logs', 1, Len(activity_logs)) = activity_logs]_vars

\* C26: audit coverage. A call that has changed a pest record has appended
\* an activity log entry for its action: no completed write is left without
\* an audit entry.
C26_AuditCoverage ==
    audit.last.wrote => audit.last.logged

\* the activity log entries with action import that a user has for a domain
ImportEntries(p, dom) ==
    {k \in 1..Len(activity_logs) : activity_logs[k] = LogEntry(p, "import", dom)}
\* C27: a bulk import of one domain appends exactly one activity log entry
\* with action import, whatever the number of rows: a user whose only import
\* of a domain has returned with records inserted has one such entry.
C27_OneLogEntryPerImport ==
    \A p \in Users : \A dom \in ImportedDomains(sess[p]) :
        sess[p].results[dom][1].success >= 1 => Cardinality(ImportEntries(p, dom)) = 1

\* a table that has every required column, at least one of them in a spelling
\* that differs from the required name by case only
CaseVariantTable(df) ==
    /\ \A c \in Range(required_columns) : \E d \in Range(df.columns) : Lower(d) = Lower(c)
    /\ \E c \in Range(required_columns) : ~Has(df.columns, c)
\* C28: validator and normalizer agree. When the raw table's column names are
\* case variants of the required names and validate_pest_dataset has returned
\* for the normalized table, its valid verdict is the verdict
\* validate_pest_dataset gives for the raw table.
C28_ValidatorAgreesWithNormalizer ==
    (/\ calc.pc = "loaded" /\ calc.written = {}
     /\ calc.validation # <<>> /\ calc.validation[1].of = "norm"
     /\ ~calc.validation[1].raised
     /\ CaseVariantTable(TableOf(calc, "input"))
     /\ ~validate_raises(TableOf(calc, "input")))
    => calc.validation[1].result[1].valid = validate_pest_dataset(TableOf(calc, "input")).valid

\* C29: row atomicity in bulk_import_pest_data. A row that added an error
\* entry has inserted no record, and a row that inserted a record added no
\* error entry: no row is counted both in success and in failed.
C29_RowAtomicity ==
    \A p \in Users : \A k \in 1..Len(sess[p].pest_attempts) :
        ~(sess[p].pest_attempts[k].inserted > 0 /\ sess[p].pest_attempts[k].failed)

\* C30: get_db never returns a database handle whose client failed its
\* connection test: every handle a call of get_db returned belonged, at the
\* time of the call, to a client whose ping had succeeded and that had not
\* been closed.
C30_OnlyTestedHandles ==
    \A k \in 1..Len(conn.returned) :
        ~conn.returned[k].raised => conn.returned[k].tested /\ ~conn.returned[k].closed

====================================================================
